---- MODULE Spec2Model ----
(***************************************************************************)
(* Model of graphapi-dmarc-mail.py: the Graph mail client (token cache,    *)
(* folder-id cache, authenticated GET/DELETE), the DMARC attachment        *)
(* decoder get_dmarc_xml, and the run of main.                             *)
(*                                                                         *)
(* Encoding of Python values:                                              *)
(*   None / a value x        the sequences <<>> / <<x>>  (None, Some(x))   *)
(*   str (file names)        sequences of one-character strings            *)
(*   bytes                   sequences of small naturals                   *)
(*   an exception            a record field raised = TRUE                  *)
(***************************************************************************)
EXTENDS Integers, Sequences, FiniteSets, TLC

VARIABLES
    token,            \* Graph._token            (None or Some(string))
    token_expires,    \* Graph._token_expires    (None or Some(seconds))
    folder_id,        \* Graph._folder_id        (None or Some(string))
    now,              \* datetime.now(), in seconds
    folders,          \* the server's folder listing  (value of GET .../mailFolders)
    mailbox,          \* the server's messages: a sequence of [id, attachments]
    op,               \* the operation that ran last
    sent,             \* the HTTP requests the last operation sent, in order
                      \* (in a run of main: the requests of the run so far)
    raised,           \* whether the last operation ended by raising
    processed_items,  \* the mapping built by the last process_dmarc_mail_items
    decoded,          \* ids of the messages get_dmarc_xml was called for
    items,            \* the ids handed to the last delete_mail_items
    returned,         \* what the last api_get_request / api_delete_request returned
    pc,               \* position of main(): "idle", "start", "processed", "done", "failed"
    attachment,       \* the attachment handed to get_dmarc_xml
    xml_data,         \* what get_dmarc_xml did with it
    dpc               \* "idle", "call", "done": position of the decoder run

vars == <<token, token_expires, folder_id, now, folders, mailbox, op, sent,
          raised, processed_items, decoded, items, returned, pc, attachment,
          xml_data, dpc>>

graph_vars == <<token, token_expires, folder_id>>
call_vars == <<op, sent, raised, processed_items, decoded, items, returned>>
decoder_vars == <<attachment, xml_data, dpc>>

----------------------------------------------------------------------------
(* Bounds *)

MaxBytes == 1        \* longest decompressed payload
MaxEntries == 2      \* most entries in a zip archive
MaxMsgs == 2         \* most messages in the mailbox of a run of main
MaxTicks == 3        \* clock advances, each of one safety margin

----------------------------------------------------------------------------
(* Python values *)

None == <<>>
Some(x) == <<x>>
Val(o) == o[1]

\* Python truthiness: None is falsy, and so are b"", [] and ""
Truthy(o) == o # None /\ Val(o) # <<>>
TruthyStr(o) == o # None /\ Val(o) # ""

EmptyMap == [x \in {} |-> <<>>]

RECURSIVE SeqsUpTo(_, _)
SeqsUpTo(S, n) ==
    IF n = 0 THEN {<<>>}
    ELSE LET shorter == SeqsUpTo(S, n - 1)
         IN shorter \cup {Append(s, x) : s \in {t \in shorter : Len(t) = n - 1}, x \in S}

----------------------------------------------------------------------------
(* File names and get_extention *)

DOT == "."
GZ == <<"g", "z">>
GZIP == <<"g", "z", "i", "p">>
ZIP == <<"z", "i", "p">>
XML == <<"x", "m", "l">>
PDF == <<"p", "d", "f">>
TXT == <<"t", "x", "t">>
STEM == <<"r">>

WithExt(stem, ext) == stem \o <<DOT>> \o ext

\* str.split('.')
RECURSIVE split(_)
split(s) ==
    IF \A i \in 1..Len(s) : s[i] # DOT
    THEN <<s>>
    ELSE LET i == CHOOSE k \in 1..Len(s) :
                      s[k] = DOT /\ \A j \in 1..(k - 1) : s[j] # DOT
         IN <<SubSeq(s, 1, i - 1)>> \o split(SubSeq(s, i + 1, Len(s)))

get_extention(name) ==
    IF name = None
    THEN None
    ELSE LET parts == split(Val(name))
         IN Some(parts[Len(parts)])

----------------------------------------------------------------------------
(* Attachment payloads and the library calls of get_dmarc_xml *)

APPLICATION_GZIP == "application/gzip"
APPLICATION_ZIP == "application/zip"
OCTET_STREAM == "application/octet-stream"

\* The bytes behind contentBytes: a gzip stream (with what it decompresses
\* to), a zip archive (with its entries in listing order) or neither.
GzipStream(data) == [kind |-> "gzip", data |-> data, entries |-> <<>>]
ZipArchive(entries) == [kind |-> "zip", data |-> <<>>, entries |-> entries]
Junk == [kind |-> "junk", data |-> <<>>, entries |-> <<>>]

\* contentBytes: base64 text that decodes to raw, or text b64decode rejects
Base64(raw) == [valid |-> TRUE, raw |-> raw]
BadBase64 == [valid |-> FALSE, raw |-> Junk]

b64decode(contentBytes) ==
    [raised |-> ~contentBytes.valid, value |-> contentBytes.raw]

\* gzip.decompress: the decompressed bytes, or an exception
gzip_decompress(raw_data) ==
    [raised |-> raw_data.kind # "gzip", value |-> raw_data.data]

\* ZipFile(io.BytesIO(raw_data)): BadZipFile unless a zip archive
ZipFile(raw_data) ==
    [raised |-> raw_data.kind # "zip", filelist |-> raw_data.entries]

\* ZipFile.read(name): looks the name up in NameToInfo, where a later entry
\* of the same name has replaced an earlier one
zipfile_read(zipfile, file_name) ==
    LET files == zipfile.filelist
        last == CHOOSE i \in 1..Len(files) :
                    /\ files[i].filename = file_name
                    /\ \A j \in (i + 1)..Len(files) : files[j].filename # file_name
    IN files[last].data

Returned(value, tried) == [raised |-> FALSE, value |-> value, attempted |-> tried]
Raised(tried) == [raised |-> TRUE, value |-> None, attempted |-> tried]

get_dmarc_xml(att) ==
    LET ext == get_extention(att.name)
        content_type == att.contentType
        b64 == b64decode(att.contentBytes)
        raw_data == b64.value
    IN
    IF b64.raised THEN Raised("none")
    ELSE IF content_type = APPLICATION_GZIP \/ ext = Some(GZ) \/ ext = Some(GZIP)
    THEN LET r == gzip_decompress(raw_data)
         IN IF r.raised THEN Returned(None, "gzip")
            ELSE Returned(Some(r.value), "gzip")
    ELSE IF content_type = APPLICATION_ZIP \/ ext = Some(ZIP)
    THEN LET zipfile == ZipFile(raw_data)
         IN IF zipfile.raised THEN Returned(None, "zip")
            ELSE LET files == zipfile.filelist
                 IN IF files # <<>>
                    THEN LET file_name == files[1].filename
                         IN IF get_extention(Some(file_name)) = Some(XML)
                            THEN Returned(Some(zipfile_read(zipfile, file_name)), "zip")
                            ELSE Returned(None, "zip")
                    ELSE Returned(None, "zip")
    ELSE Returned(None, "none")

----------------------------------------------------------------------------
(* The decoder on its own: every attachment of the bounded universe *)

Names ==
    {None} \cup
    {Some(n) : n \in {WithExt(STEM, GZ), WithExt(STEM, GZIP), WithExt(STEM, ZIP),
                      WithExt(STEM, XML), WithExt(STEM, PDF),
                      GZ, GZIP, ZIP,
                      WithExt(WithExt(STEM, ZIP), GZ),
                      WithExt(WithExt(STEM, GZ), ZIP),
                      <<>>, STEM \o <<DOT>>}}

ContentTypes == {APPLICATION_GZIP, APPLICATION_ZIP, OCTET_STREAM}

PayloadBytes == SeqsUpTo({1, 2}, MaxBytes)

EntryNames == {WithExt(STEM, XML), WithExt(<<"a">>, TXT), XML}

Entries == [filename : EntryNames, data : {<<1>>, <<2>>}]

RawPayloads ==
    {GzipStream(d) : d \in PayloadBytes}
        \cup {ZipArchive(es) : es \in SeqsUpTo(Entries, MaxEntries)}
        \cup {Junk}

Contents == {Base64(raw) : raw \in RawPayloads} \cup {BadBase64}

Attachments == [name : Names, contentType : ContentTypes, contentBytes : Contents]

NoAttachment == [name |-> None, contentType |-> OCTET_STREAM, contentBytes |-> BadBase64]
NotDecoded == Returned(None, "none")

----------------------------------------------------------------------------
(* The Graph client *)

SAFETY_MARGIN == 300      \* timedelta(seconds=300)
HTTP_OK == 200
HTTP_NO_CONTENT == 204

MAILBOX_FOLDER == "Inbox" \* settings['mailbox_folder']

\* The Graph instance's fields, as one value
Self == [token |-> token, token_expires |-> token_expires, folder_id |-> folder_id]

\* A request on the wire with the status it was answered with; expires is
\* the expiry of the token it carries
Request(method, kind, id, self, t, status_code) ==
    [method |-> method, kind |-> kind, id |-> id, token |-> self.token,
     expires |-> self.token_expires, at |-> t, status_code |-> status_code]

TokenRequest(t, status_code) ==
    [method |-> "POST", kind |-> "token", id |-> "", token |-> None,
     expires |-> None, at |-> t, status_code |-> status_code]

\* (mutant of _get_fresh_token: a refused request leaves the old token in place)
_get_fresh_token_keeping(self, t, response) ==
    IF response.status_code = HTTP_OK
    THEN [self EXCEPT !.token = Some(response.access_token),
                      !.token_expires = Some(t + response.expires_in)]
    ELSE self

_get_fresh_token(self, t, response) ==
    IF response.status_code = HTTP_OK
    THEN [self EXCEPT !.token = Some(response.access_token),
                      !.token_expires = Some(t + response.expires_in)]
    ELSE [self EXCEPT !.token = None]

\* the condition of line 63
token_is_refreshed(self, t) ==
    self.token = None \/ Val(self.token_expires) + SAFETY_MARGIN > t

get_token(self, t, response) ==
    IF token_is_refreshed(self, t)
    THEN [self |-> _get_fresh_token(self, t, response), sent |-> <<TokenRequest(t, response.status_code)>>]
    ELSE [self |-> self, sent |-> <<>>]

\* (mutant of api_get_request: the request goes out without the token check)
api_get_request_unchecked(self, t, kind, id, response) ==
    [value |-> IF response.status_code # HTTP_OK THEN None ELSE Some(response.value),
     sent |-> <<Request("GET", kind, id, self, t, response.status_code)>>]

\* response: [status_code, value]; the result is None or Some(value)
api_get_request(self, t, kind, id, response) ==
    IF ~TruthyStr(self.token)
    THEN [value |-> None, sent |-> <<>>]
    ELSE [value |-> IF response.status_code # HTTP_OK THEN None ELSE Some(response.value),
          sent |-> <<Request("GET", kind, id, self, t, response.status_code)>>]

api_delete_request(self, t, id, status_code) ==
    IF ~TruthyStr(self.token)
    THEN [ok |-> FALSE, sent |-> <<>>]
    ELSE [ok |-> status_code = HTTP_NO_CONTENT,
          sent |-> <<Request("DELETE", "message", id, self, t, status_code)>>]

\* (mutant of scan_folders: the scan stops at the first match)
RECURSIVE scan_folders_first(_, _)
scan_folders_first(listing, found) ==
    IF listing = <<>>
    THEN found
    ELSE IF Head(listing).displayName = MAILBOX_FOLDER
         THEN Some(Head(listing).id)
         ELSE scan_folders_first(Tail(listing), found)

\* the loop of lines 93-96: every match overwrites folder_id
RECURSIVE scan_folders(_, _)
scan_folders(listing, found) ==
    IF listing = <<>>
    THEN found
    ELSE scan_folders(Tail(listing),
                      IF Head(listing).displayName = MAILBOX_FOLDER
                      THEN Some(Head(listing).id)
                      ELSE found)

\* (mutant of get_folder_id: the folders are listed before the token is asked for)
get_folder_id_listing_first(self, t, token_response, folders_response) ==
    LET tok == get_token(self, t, token_response)
        s1 == tok.self
    IN IF ~TruthyStr(s1.token) \/ TruthyStr(s1.folder_id)
       THEN [self |-> s1, sent |-> tok.sent, raised |-> FALSE]
       ELSE LET got == api_get_request(s1, t, "folders", "", folders_response)
            IN IF got.value = None
               THEN [self |-> s1, sent |-> got.sent \o tok.sent, raised |-> TRUE]
               ELSE [self |-> [s1 EXCEPT !.folder_id = scan_folders(Val(got.value), None)],
                     sent |-> got.sent \o tok.sent, raised |-> FALSE]

\* (mutant of get_folder_id: the cached folder id is not looked at)
get_folder_id_uncached(self, t, token_response, folders_response) ==
    LET tok == get_token(self, t, token_response)
        s1 == tok.self
    IN IF ~TruthyStr(s1.token)
       THEN [self |-> s1, sent |-> tok.sent, raised |-> FALSE]
       ELSE LET got == api_get_request(s1, t, "folders", "", folders_response)
            IN IF got.value = None
               THEN [self |-> s1, sent |-> tok.sent \o got.sent, raised |-> TRUE]
               ELSE [self |-> [s1 EXCEPT !.folder_id = scan_folders(Val(got.value), None)],
                     sent |-> tok.sent \o got.sent, raised |-> FALSE]

\* iterating over None raises TypeError
get_folder_id(self, t, token_response, folders_response) ==
    LET tok == get_token(self, t, token_response)
        s1 == tok.self
    IN IF ~TruthyStr(s1.token) \/ TruthyStr(s1.folder_id)
       THEN [self |-> s1, sent |-> tok.sent, raised |-> FALSE]
       ELSE LET got == api_get_request(s1, t, "folders", "", folders_response)
            IN IF got.value = None
               THEN [self |-> s1, sent |-> tok.sent \o got.sent, raised |-> TRUE]
               ELSE [self |-> [s1 EXCEPT !.folder_id = scan_folders(Val(got.value), None)],
                     sent |-> tok.sent \o got.sent, raised |-> FALSE]

\* str(self._folder_id) inside the f-string of line 136
format_id(id) == IF id = None THEN "None" ELSE Val(id)

\* (mutant of first_attachment: the last attachment instead of the first)
last_attachment(attachments) == attachments[Len(attachments)]

\* attachment := attachments[0]
first_attachment(attachments) == attachments[1]

\* the body of the loop of lines 137-152 for items[i..], acc being the
\* requests sent, the mapping, the decoder calls and the exception so far
RECURSIVE process_items(_, _, _, _, _, _)
process_items(self, t, listing, i, attachments_response, acc) ==
    IF i > Len(listing)
    THEN acc
    ELSE LET item == listing[i]
             got == api_get_request(self, t, "attachments", item.id,
                                    attachments_response[item.id])
             acc1 == [acc EXCEPT !.sent = @ \o got.sent]
         IN IF Truthy(got.value)
            THEN LET xml == get_dmarc_xml(first_attachment(Val(got.value)))
                     acc2 == [acc1 EXCEPT !.decoded = Append(@, item.id)]
                 IN IF xml.raised
                    THEN [acc2 EXCEPT !.raised = TRUE]
                    ELSE process_items(self, t, listing, i + 1, attachments_response,
                             IF Truthy(xml.value)
                             THEN [acc2 EXCEPT !.processed_items =
                                       (item.id :> Val(xml.value)) @@ @]
                             ELSE acc2)
            ELSE process_items(self, t, listing, i + 1, attachments_response, acc1)

process_dmarc_mail_items(self, t, token_response, folders_response, messages_response, attachments_response) ==
    LET fold == get_folder_id(self, t, token_response, folders_response)
        s1 == fold.self
        acc0 == [self |-> s1, sent |-> fold.sent, raised |-> fold.raised,
                 processed_items |-> EmptyMap, decoded |-> <<>>]
    IN IF fold.raised
       THEN acc0
       ELSE LET got == api_get_request(s1, t, "messages", format_id(s1.folder_id),
                                       messages_response)
                acc1 == [acc0 EXCEPT !.sent = @ \o got.sent]
            IN IF got.value = None
               THEN [acc1 EXCEPT !.raised = TRUE]
               ELSE process_items(s1, t, Val(got.value), 1, attachments_response, acc1)

\* (mutant of delete_mail_items: the loop ends at the first failed deletion)
RECURSIVE delete_mail_items_stopping(_, _, _, _, _)
delete_mail_items_stopping(self, t, ids, i, delete_status) ==
    IF i > Len(ids)
    THEN <<>>
    ELSE LET r == api_delete_request(self, t, ids[i], delete_status[ids[i]])
         IN IF r.ok
            THEN r.sent \o delete_mail_items_stopping(self, t, ids, i + 1, delete_status)
            ELSE r.sent

\* the loop of lines 160-163: a failed deletion is printed and the loop goes on
RECURSIVE delete_mail_items(_, _, _, _, _)
delete_mail_items(self, t, ids, i, delete_status) ==
    IF i > Len(ids)
    THEN <<>>
    ELSE api_delete_request(self, t, ids[i], delete_status[ids[i]]).sent
             \o delete_mail_items(self, t, ids, i + 1, delete_status)

----------------------------------------------------------------------------
(* The servers: what the identity and mail endpoints may answer *)

Tokens == {"t1", "t2"}
ExpiresIn == {SAFETY_MARGIN, 2 * SAFETY_MARGIN}

TokenResponses ==
    [status_code : {HTTP_OK}, access_token : Tokens, expires_in : ExpiresIn]
        \cup {[status_code |-> 401, access_token |-> "", expires_in |-> 0]}

GetStatuses == {HTTP_OK, 404}
DeleteStatuses == {HTTP_NO_CONTENT, 404}

Folder(name, id) == [displayName |-> name, id |-> id]

FolderListings ==
    {<<Folder("Archive", "f0")>>,
     <<Folder("Archive", "f0"), Folder(MAILBOX_FOLDER, "f1")>>,
     <<Folder(MAILBOX_FOLDER, "f1"), Folder("Archive", "f0")>>,
     <<Folder(MAILBOX_FOLDER, "f1"), Folder(MAILBOX_FOLDER, "f2")>>}

Attachment(name, type, bytes) ==
    [name |-> Some(name), contentType |-> type, contentBytes |-> bytes]

ReportGz == Attachment(WithExt(STEM, GZ), OCTET_STREAM, Base64(GzipStream(<<1>>)))
EmptyGz == Attachment(WithExt(STEM, GZ), APPLICATION_GZIP, Base64(GzipStream(<<>>)))
ReportZip ==
    Attachment(WithExt(STEM, ZIP), APPLICATION_ZIP,
               Base64(ZipArchive(<<[filename |-> WithExt(STEM, XML), data |-> <<2>>]>>)))
ReportPdf == Attachment(WithExt(STEM, PDF), OCTET_STREAM, Base64(Junk))
CorruptGz == Attachment(WithExt(STEM, GZ), APPLICATION_GZIP, Base64(Junk))
NotBase64 == Attachment(WithExt(STEM, GZ), APPLICATION_GZIP, BadBase64)

\* the attachment lists a message of the mailbox may carry
AttachmentLists ==
    {<<>>, <<ReportGz>>, <<EmptyGz>>, <<ReportZip>>, <<ReportPdf>>, <<CorruptGz>>,
     <<NotBase64>>, <<ReportPdf, ReportGz>>}

MessageIds == <<"m1", "m2", "m3", "m4">>

\* mailboxes of n messages "m1".."mn", in listing order
MailboxesOf(n, lists) ==
    {[i \in 1..n |-> [id |-> MessageIds[i], attachments |-> f[i]]] : f \in [1..n -> lists]}

Mailboxes(max, lists) == UNION {MailboxesOf(n, lists) : n \in 0..max}

Ids(box) == {box[i].id : i \in 1..Len(box)}

\* GET .../messages answers with the items, GET .../attachments with a
\* message's attachments
MessagesResponse(box, status) == [status_code |-> status, value |-> box]

AttachmentsResponse(box, status) ==
    [id \in Ids(box) |->
        [status_code |-> status[id],
         value |-> (CHOOSE m \in {box[i] : i \in 1..Len(box)} : m.id = id).attachments]]

FoldersResponse(status) == [status_code |-> status, value |-> folders]

\* lists of distinct ids of the mailbox
IdLists(box) ==
    {s \in SeqsUpTo(Ids(box), Len(box)) : \A i, j \in 1..Len(s) : s[i] = s[j] => i = j}

----------------------------------------------------------------------------
(* Operations of a Graph instance *)

\* the return value of api_get_request (value) or api_delete_request (ok)
NoReturn == [value |-> None, ok |-> FALSE]

Construct ==
    /\ token = None
    /\ token_expires = None
    /\ folder_id = None

NoCall ==
    /\ op = "init"
    /\ sent = <<>>
    /\ raised = FALSE
    /\ processed_items = EmptyMap
    /\ decoded = <<>>
    /\ items = <<>>
    /\ returned = NoReturn

DecoderIdle ==
    /\ attachment = NoAttachment
    /\ xml_data = NotDecoded
    /\ dpc = "idle"

SetSelf(self) ==
    /\ token' = self.token
    /\ token_expires' = self.token_expires
    /\ folder_id' = self.folder_id

GetToken ==
    /\ pc = "idle"
    /\ \E response \in TokenResponses :
          LET r == get_token(Self, now, response)
          IN /\ SetSelf(r.self)
             /\ sent' = r.sent
    /\ op' = "get_token"
    /\ returned' = NoReturn
    /\ raised' = FALSE
    /\ processed_items' = EmptyMap
    /\ decoded' = <<>>
    /\ items' = <<>>
    /\ UNCHANGED <<now, folders, mailbox, pc, decoder_vars>>

GetFolderId ==
    /\ pc = "idle"
    /\ \E response \in TokenResponses, status \in GetStatuses :
          LET r == get_folder_id(Self, now, response, FoldersResponse(status))
          IN /\ SetSelf(r.self)
             /\ sent' = r.sent
             /\ raised' = r.raised
    /\ op' = "get_folder_id"
    /\ returned' = NoReturn
    /\ processed_items' = EmptyMap
    /\ decoded' = <<>>
    /\ items' = <<>>
    /\ UNCHANGED <<now, folders, mailbox, pc, decoder_vars>>

\* one call of process_dmarc_mail_items, whatever the servers answer
Process ==
    \E response \in TokenResponses, fstatus \in GetStatuses, mstatus \in GetStatuses,
       astatus \in [Ids(mailbox) -> GetStatuses] :
          LET r == process_dmarc_mail_items(Self, now, response, FoldersResponse(fstatus),
                       MessagesResponse(mailbox, mstatus),
                       AttachmentsResponse(mailbox, astatus))
          IN /\ SetSelf(r.self)
             /\ sent' = r.sent
             /\ raised' = r.raised
             /\ processed_items' = r.processed_items
             /\ decoded' = r.decoded
             /\ op' = "process_dmarc_mail_items"
             /\ items' = <<>>
             /\ returned' = NoReturn

ProcessDmarcMailItems ==
    /\ pc = "idle"
    /\ Process
    /\ UNCHANGED <<now, folders, mailbox, pc, decoder_vars>>

\* one call of delete_mail_items, before being the requests already sent
Delete(ids, before) ==
    /\ \E status \in [Ids(mailbox) -> DeleteStatuses] :
          sent' = before \o delete_mail_items(Self, now, ids, 1, status)
    /\ items' = ids
    /\ op' = "delete_mail_items"
    /\ raised' = FALSE
    /\ decoded' = <<>>
    /\ returned' = NoReturn

\* (mutant of DeleteMailItems: the token is refreshed before the deletions)
DeleteMailItemsRefreshing ==
    /\ pc = "idle"
    /\ \E ids \in IdLists(mailbox), response \in TokenResponses,
          status \in [Ids(mailbox) -> DeleteStatuses] :
          LET tok == get_token(Self, now, response)
          IN /\ SetSelf(tok.self)
             /\ sent' = tok.sent \o delete_mail_items(tok.self, now, ids, 1, status)
             /\ items' = ids
    /\ op' = "delete_mail_items"
    /\ raised' = FALSE
    /\ decoded' = <<>>
    /\ returned' = NoReturn
    /\ processed_items' = EmptyMap
    /\ UNCHANGED <<now, folders, mailbox, pc, decoder_vars>>

DeleteMailItems ==
    /\ pc = "idle"
    /\ \E ids \in IdLists(mailbox) : Delete(ids, <<>>)
    /\ processed_items' = EmptyMap
    /\ UNCHANGED <<graph_vars, now, folders, mailbox, pc, decoder_vars>>

\* a direct call of api_get_request on one of the three listing endpoints
ApiGet(kind, id, value) ==
    /\ pc = "idle"
    /\ \E status \in GetStatuses :
          LET r == api_get_request(Self, now, kind, id,
                                   [status_code |-> status, value |-> value])
          IN /\ sent' = r.sent
             /\ returned' = [value |-> r.value, ok |-> FALSE]
    /\ op' = "api_get_request"
    /\ raised' = FALSE
    /\ processed_items' = EmptyMap
    /\ decoded' = <<>>
    /\ items' = <<>>
    /\ UNCHANGED <<graph_vars, now, folders, mailbox, pc, decoder_vars>>

ApiGetRequest ==
    \/ ApiGet("folders", "", folders)
    \/ ApiGet("messages", format_id(folder_id), mailbox)
    \/ \E i \in 1..Len(mailbox) :
          ApiGet("attachments", mailbox[i].id, mailbox[i].attachments)

\* a direct call of api_delete_request
ApiDeleteRequest ==
    /\ pc = "idle"
    /\ \E id \in Ids(mailbox), status \in DeleteStatuses :
          LET r == api_delete_request(Self, now, id, status)
          IN /\ sent' = r.sent
             /\ returned' = [value |-> None, ok |-> r.ok]
    /\ op' = "api_delete_request"
    /\ raised' = FALSE
    /\ processed_items' = EmptyMap
    /\ decoded' = <<>>
    /\ items' = <<>>
    /\ UNCHANGED <<graph_vars, now, folders, mailbox, pc, decoder_vars>>

\* datetime.now() moves on
Tick ==
    /\ pc = "idle"
    /\ now < MaxTicks * SAFETY_MARGIN
    /\ now' = now + SAFETY_MARGIN
    /\ op' = "tick"
    /\ returned' = NoReturn
    /\ sent' = <<>>
    /\ raised' = FALSE
    /\ processed_items' = EmptyMap
    /\ decoded' = <<>>
    /\ items' = <<>>
    /\ UNCHANGED <<graph_vars, folders, mailbox, pc, decoder_vars>>

\* the mailboxes the client is exercised against outside a run of main
ClientMailboxes == Mailboxes(1, {<<>>, <<ReportGz>>})

Init ==
    /\ Construct
    /\ now = 0
    /\ folders \in FolderListings
    /\ mailbox \in ClientMailboxes
    /\ NoCall
    /\ pc = "idle"
    /\ DecoderIdle

Next ==
    \/ GetToken
    \/ GetFolderId
    \/ ProcessDmarcMailItems
    \/ DeleteMailItems
    \/ ApiGetRequest
    \/ ApiDeleteRequest
    \/ Tick

Spec == Init /\ [][Next]_vars

----------------------------------------------------------------------------
(* A run of main(): construct, process, then delete what was processed *)

\* dict(items).keys(): the keys in insertion order, which is listing order
keys(box, mapping) ==
    LET ids == [i \in 1..Len(box) |-> box[i].id]
        in_mapping(id) == id \in DOMAIN mapping
    IN SelectSeq(ids, in_mapping)

MainProcess ==
    /\ pc = "start"
    /\ Process
    /\ pc' = IF raised' THEN "failed" ELSE "processed"
    /\ UNCHANGED <<now, folders, mailbox, decoder_vars>>

MainDelete ==
    /\ pc = "processed"
    /\ Delete(keys(mailbox, processed_items), sent)
    /\ pc' = "done"
    /\ UNCHANGED <<graph_vars, processed_items, now, folders, mailbox, decoder_vars>>

MainMailboxes == Mailboxes(MaxMsgs, AttachmentLists)

InitMain ==
    /\ Construct
    /\ now = 0
    /\ folders \in FolderListings
    /\ mailbox \in MainMailboxes
    /\ NoCall
    /\ pc = "start"
    /\ DecoderIdle

NextMain == MainProcess \/ MainDelete

SpecMain == InitMain /\ [][NextMain]_vars

----------------------------------------------------------------------------
(* The decoder applied to one attachment *)

Decode ==
    /\ dpc = "call"
    /\ xml_data' = get_dmarc_xml(attachment)
    /\ dpc' = "done"
    /\ UNCHANGED <<graph_vars, now, folders, mailbox, call_vars, pc, attachment>>

InitDecode ==
    /\ Construct
    /\ now = 0
    /\ folders = <<>>
    /\ mailbox = <<>>
    /\ NoCall
    /\ pc = "idle"
    /\ attachment \in Attachments
    /\ xml_data = NotDecoded
    /\ dpc = "call"

NextDecode == Decode

SpecDecode == InitDecode /\ [][NextDecode]_vars

----------------------------------------------------------------------------
(* Claims about the decoder, checked under SpecDecode *)

HasDot(s) == \E i \in 1..Len(s) : s[i] = DOT

AfterLastDot(s) ==
    LET i == CHOOSE k \in 1..Len(s) : s[k] = DOT /\ \A j \in (k + 1)..Len(s) : s[j] # DOT
    IN SubSeq(s, i + 1, Len(s))

\* The extension as the specification defines it: the substring after the
\* last '.', absent when the name is absent or has no '.'
Extension(name) ==
    IF name = None \/ ~HasDot(Val(name)) THEN None ELSE Some(AfterLastDot(Val(name)))

GzipSignal(att) ==
    att.contentType = APPLICATION_GZIP \/ Extension(att.name) \in {Some(GZ), Some(GZIP)}

ZipSignal(att) ==
    att.contentType = APPLICATION_ZIP \/ Extension(att.name) = Some(ZIP)

Decoded == dpc = "done"
RawData == attachment.contentBytes.raw
IsBase64 == attachment.contentBytes.valid
DecodeFailed == ~xml_data.raised /\ xml_data.value = None

\* C2: for every (content-type, filename) pair get_dmarc_xml takes the gzip
\* branch iff the content-type is "application/gzip" or the extension is "gz"
\* or "gzip"; otherwise the zip branch iff the content-type is
\* "application/zip" or the extension is "zip"; otherwise it returns failure
\* without attempting a decompression; and on the gzip branch a valid gzip
\* stream yields its decompressed bytes exactly.  (Stated for contentBytes
\* that are base64: the failure of line 113 is the matter of C5 and C6.)
C2_FormatByPriority ==
    (Decoded /\ IsBase64) =>
        /\ xml_data.attempted = "gzip" <=> GzipSignal(attachment)
        /\ xml_data.attempted = "zip" <=> (~GzipSignal(attachment) /\ ZipSignal(attachment))
        /\ (~GzipSignal(attachment) /\ ~ZipSignal(attachment)) =>
               (xml_data.attempted = "none" /\ DecodeFailed)
        /\ (GzipSignal(attachment) /\ RawData.kind = "gzip") =>
               (~xml_data.raised /\ xml_data.value = Some(RawData.data))

\* C3: on the zip path the result depends only on the first entry of the
\* archive's listing: an empty listing fails, a first entry with extension
\* "xml" yields that entry's contents, any other first entry fails, also when
\* a later entry is an .xml.  (Stated for archives whose entry names all
\* contain a '.': names without one are the matter of C4.)
C3_FirstZipEntryOnly ==
    (/\ Decoded
     /\ IsBase64
     /\ xml_data.attempted = "zip"
     /\ RawData.kind = "zip"
     /\ \A i \in 1..Len(RawData.entries) : HasDot(RawData.entries[i].filename)) =>
        LET entries == RawData.entries
        IN /\ entries = <<>> => DecodeFailed
           /\ (entries # <<>> /\ Extension(Some(entries[1].filename)) = Some(XML)) =>
                  (~xml_data.raised /\ xml_data.value = Some(entries[1].data))
           /\ (entries # <<>> /\ Extension(Some(entries[1].filename)) # Some(XML)) =>
                  DecodeFailed

\* C4: a filename that is absent or contains no '.' has no extension: by its
\* name alone such an attachment (named exactly "gz", "gzip" or "zip", say)
\* selects no format branch, and a zip entry named without a '.' (exactly
\* "xml", say) is not accepted as an xml entry.
C4_NoDotNoExtension ==
    /\ (/\ Decoded
        /\ IsBase64
        /\ attachment.name = None \/ ~HasDot(Val(attachment.name))
        /\ attachment.contentType \notin {APPLICATION_GZIP, APPLICATION_ZIP}) =>
           (xml_data.attempted = "none" /\ DecodeFailed)
    /\ (/\ Decoded
        /\ IsBase64
        /\ xml_data.attempted = "zip"
        /\ RawData.kind = "zip"
        /\ RawData.entries # <<>>
        /\ ~HasDot(RawData.entries[1].filename)) =>
           DecodeFailed

\* C5: for every attachment whose content-type or extension selects the gzip
\* or the zip branch and whose payload is not a valid stream of that format,
\* the decode returns failure as a value and never raises.  (Stated for
\* attachment names that are absent or contain a '.': C4 has the others.)
C5_InvalidPayloadFails ==
    (/\ Decoded
     /\ attachment.name = None \/ HasDot(Val(attachment.name))
     /\ \/ GzipSignal(attachment) /\ (~IsBase64 \/ RawData.kind # "gzip")
        \/ ~GzipSignal(attachment) /\ ZipSignal(attachment)
               /\ (~IsBase64 \/ RawData.kind # "zip")) =>
        DecodeFailed

----------------------------------------------------------------------------
(* Claims about process_dmarc_mail_items, checked under SpecMain *)

Processed == op = "process_dmarc_mail_items"

\* the GET .../attachments of message id, as the last operation sent it
AttachmentFetches(id) ==
    {k \in 1..Len(sent) : sent[k].kind = "attachments" /\ sent[k].id = id}

Fetched(id) == \E k \in AttachmentFetches(id) : sent[k].status_code = HTTP_OK

Listed == \E k \in 1..Len(sent) : sent[k].kind = "messages" /\ sent[k].status_code = HTTP_OK

Called(id) == \E k \in 1..Len(decoded) : decoded[k] = id

\* what the decoder makes of attachment 0 of message i of the mailbox
DecodeOfFirst(i) == get_dmarc_xml(mailbox[i].attachments[1])

HasFirst(i) == Fetched(mailbox[i].id) /\ mailbox[i].attachments # <<>>

DecodesFirst(i) ==
    HasFirst(i) /\ ~DecodeOfFirst(i).raised /\ DecodeOfFirst(i).value # None

\* C1: the mapping returned by process_dmarc_mail_items has a key for message
\* id m iff m was listed and the decode of m's first attachment succeeded,
\* and the value under m is exactly that decoded payload, whatever its
\* length (zero bytes included).
C1_MappingIsDecodedFirsts ==
    (Processed /\ ~raised) =>
        /\ DOMAIN processed_items \subseteq Ids(mailbox)
        /\ \A i \in 1..Len(mailbox) :
              /\ mailbox[i].id \in DOMAIN processed_items <=> (Listed /\ DecodesFirst(i))
              /\ mailbox[i].id \in DOMAIN processed_items =>
                     processed_items[mailbox[i].id] = Val(DecodeOfFirst(i).value)

\* C6: a decode failure for one message does not stop the run, whatever the
\* content-type, name and content bytes of its first attachment: every later
\* message of the listing still has its attachments fetched and, when its
\* first attachment decodes, gets its entry.  (The entry is asked for only
\* when the payload is not empty: C1 has the zero-byte payload.)
C6_FailureDoesNotStopRun ==
    Processed =>
        \A i, j \in 1..Len(mailbox) :
            (/\ i < j
             /\ Called(mailbox[i].id)
             /\ DecodeOfFirst(i).raised \/ DecodeOfFirst(i).value = None) =>
                /\ AttachmentFetches(mailbox[j].id) # {}
                /\ (DecodesFirst(j) /\ Val(DecodeOfFirst(j).value) # <<>>) =>
                       /\ ~raised
                       /\ mailbox[j].id \in DOMAIN processed_items
                       /\ processed_items[mailbox[j].id] = Val(DecodeOfFirst(j).value)

\* C7: the outcome for a message depends only on its attachment at index 0:
\* a message with zero attachments is skipped (no decode attempted, nothing
\* added to the mapping), a message whose attachment 0 does not decode
\* contributes nothing even when a later attachment would decode, and an
\* entry holds what attachment 0 decodes to.
C7_OnlyFirstAttachment ==
    Processed =>
        \A i \in 1..Len(mailbox) :
            LET id == mailbox[i].id
            IN /\ mailbox[i].attachments = <<>> =>
                      (~Called(id) /\ id \notin DOMAIN processed_items)
               /\ (mailbox[i].attachments # <<>>
                       /\ (DecodeOfFirst(i).raised \/ DecodeOfFirst(i).value = None)) =>
                      id \notin DOMAIN processed_items
               /\ id \in DOMAIN processed_items =>
                      processed_items[id] = Val(DecodeOfFirst(i).value)

\* a run that fetched a message without attachments and a message whose
\* attachment 0 fails while its attachment 1 would decode
C7_Witness ==
    /\ Processed
    /\ ~raised
    /\ \E i \in 1..Len(mailbox) : Fetched(mailbox[i].id) /\ mailbox[i].attachments = <<>>
    /\ \E i \in 1..Len(mailbox) :
          /\ Fetched(mailbox[i].id)
          /\ Len(mailbox[i].attachments) > 1
          /\ Called(mailbox[i].id)
          /\ DecodeOfFirst(i).value = None
          /\ Truthy(get_dmarc_xml(mailbox[i].attachments[2]).value)
          /\ mailbox[i].id \notin DOMAIN processed_items

----------------------------------------------------------------------------
(* Claims about the token cache, checked under Spec *)

TokenRequests(requests) == {k \in 1..Len(requests) : requests[k].kind = "token"}

\* a token is held and the current time is more than the safety margin
\* before its expiry
InValidityWindow == token # None /\ now < Val(token_expires) - SAFETY_MARGIN

\* C8: of two consecutive calls of get_token, the second being made while the
\* token obtained by the first is still more than the 300-second safety
\* margin before its expiry, the second sends no token request and leaves the
\* token and its expiry unchanged (one token request in total).
C8_TokenReusedInWindow ==
    [][(op = "get_token" /\ op' = "get_token" /\ InValidityWindow) =>
           (sent' = <<>> /\ token' = token /\ token_expires' = token_expires)]_vars

\* C9: a call of get_token made while a token is held and the current time is
\* no longer more than the safety margin before its expiry (any such time,
\* also one more than 300 seconds past the expiry) sends exactly one token
\* request.
C9_RefreshAfterExpiry ==
    [][(op' = "get_token" /\ token # None /\ ~InValidityWindow) =>
           Cardinality(TokenRequests(sent')) = 1]_vars

\* C10: no authenticated GET or DELETE request is sent carrying a token that
\* is expired (the time of the request at or past the token's expiry).
\* (Stated for the operations that call get_token before they send:
\* delete_mail_items sends whatever token is held and never refreshes it.)
C10_NoExpiredTokenSent ==
    op \in {"get_folder_id", "process_dmarc_mail_items"} =>
    \A k \in 1..Len(sent) :
        sent[k].method \in {"GET", "DELETE"} => sent[k].at < Val(sent[k].expires)

----------------------------------------------------------------------------
(* The token gate of the data calls *)

ApiCalled == op \in {"api_get_request", "api_delete_request"}

\* C11: while no token is held, api_get_request returns None and
\* api_delete_request returns False, neither of them sends a request and
\* neither raises; so delete_mail_items, which only calls api_delete_request,
\* sends nothing either
C11_FailClosedWithoutToken ==
    /\ (ApiCalled /\ token = None) =>
           /\ sent = <<>>
           /\ ~raised
           /\ returned.value = None
           /\ returned.ok = FALSE
    /\ (op = "delete_mail_items" /\ token = None) => (sent = <<>> /\ ~raised)

\* api_get_request is called on a client that lost its token
C11_Witness ==
    /\ op = "api_get_request"
    /\ token = None
    /\ token_expires # None
    /\ sent = <<>>

DataRequests(requests) == {k \in 1..Len(requests) : requests[k].kind # "token"}

RefusedTokenRequests(requests) ==
    {k \in TokenRequests(requests) : requests[k].status_code # HTTP_OK}

GrantedTokenRequests(requests) ==
    {k \in TokenRequests(requests) : requests[k].status_code = HTTP_OK}

\* C12: a token request answered with a status other than 200 leaves no token
\* held, whatever was held before, and no data request follows it; while no
\* token is held, a data request (folder, message or attachment listing,
\* deletion) goes out only after a token request that was answered with 200,
\* and only such a request makes a token held again
C12_NoDataCallAfterRefusedToken ==
    /\ [](\A k \in RefusedTokenRequests(sent) :
             /\ token = None
             /\ \A j \in DataRequests(sent) : j < k)
    /\ [](token = None => DataRequests(sent) = {})
    /\ [][token = None =>
             /\ \A j \in DataRequests(sent') :
                   \E k \in GrantedTokenRequests(sent') : k < j
             /\ token' # None => GrantedTokenRequests(sent') # {}]_vars

\* a refresh was refused while a token was held: the token is gone and
\* process_dmarc_mail_items sent nothing after the token request
C12_Witness ==
    /\ op = "process_dmarc_mail_items"
    /\ RefusedTokenRequests(sent) # {}
    /\ token = None
    /\ token_expires # None

----------------------------------------------------------------------------
(* Listings answered with an error *)

FailedListings(kind) ==
    {k \in 1..Len(sent) : sent[k].kind = kind /\ sent[k].status_code # HTTP_OK}

\* the decoder raises on the first attachment of a message that was looked at
DecoderRaised ==
    \E i \in 1..Len(mailbox) :
        HasFirst(i) /\ Called(mailbox[i].id) /\ DecodeOfFirst(i).raised

\* C13: when a token is held and the folder listing, the message listing or
\* an attachment listing is answered with a status other than 200,
\* process_dmarc_mail_items does not raise and returns a mapping, the empty one
\* when the folder or the message listing failed (runs in which the decoder
\* raises are left to C6)
C13_ListingFailureDoesNotAbort ==
    (Processed /\ ~DecoderRaised) =>
        /\ (\E kind \in {"folders", "messages", "attachments"} :
               FailedListings(kind) # {}) => ~raised
        /\ (FailedListings("folders") # {} \/ FailedListings("messages") # {}) =>
               (~raised /\ processed_items = EmptyMap)

----------------------------------------------------------------------------
(* Folder resolution *)

Matches == {i \in 1..Len(folders) : folders[i].displayName = MAILBOX_FOLDER}

LastMatch == CHOOSE i \in Matches : \A j \in Matches : j <= i

FoldersListed ==
    \E k \in 1..Len(sent) : sent[k].kind = "folders" /\ sent[k].status_code = HTTP_OK

\* C14: after a get_folder_id that listed the folders (a token is held, the
\* cache was empty and the listing was answered 200), the cached folder id is
\* absent when no listed display name equals mailbox_folder, and is otherwise
\* the id of the last folder of the listing that carries that name
C14_LastMatchingFolderCached ==
    (op = "get_folder_id" /\ FoldersListed) =>
        /\ token # None
        /\ folder_id = IF Matches = {} THEN None ELSE Some(folders[LastMatch].id)

\* two listed folders carry the name and the second one's id is cached
C14_Witness ==
    /\ op = "get_folder_id"
    /\ FoldersListed
    /\ Cardinality(Matches) = 2
    /\ folder_id = Some(folders[2].id)
    /\ folders[1].id # folders[2].id

----------------------------------------------------------------------------
(* The run of main *)

Deletions(id) ==
    {k \in 1..Len(sent) : sent[k].method = "DELETE" /\ sent[k].id = id}

\* C15: in a run of main a deletion is requested only for an id of the
\* mapping process_dmarc_mail_items returned, and once delete_mail_items has
\* run every id of the mapping got its own deletion request, whatever status
\* the other deletions were answered with, and nothing was raised
C15_DeletesExactlyTheMapping ==
    /\ \A k \in 1..Len(sent) :
           sent[k].method = "DELETE" => sent[k].id \in DOMAIN processed_items
    /\ pc = "done" =>
           /\ ~raised
           /\ \A id \in DOMAIN processed_items : Cardinality(Deletions(id)) = 1

\* two messages were processed, the first deletion was refused and the
\* second one was still requested
C15_Witness ==
    /\ pc = "done"
    /\ folder_id # None
    /\ Cardinality(DOMAIN processed_items) = 2
    /\ \E j, k \in 1..Len(sent) :
           /\ j < k
           /\ sent[j].method = "DELETE" /\ sent[j].status_code # HTTP_NO_CONTENT
           /\ sent[k].method = "DELETE"

\* the stage of the run a request belongs to
Stage(request) ==
    CASE request.kind = "token" -> 1
      [] request.kind = "folders" -> 2
      [] request.kind = "messages" -> 3
      [] request.kind = "attachments" -> 4
      [] request.kind = "message" -> 5

IsAttachmentListing(request) == request.kind = "attachments"

AttachmentListings == SelectSeq(sent, IsAttachmentListing)

\* C16: the requests of a run of main come in the order token request,
\* folder listing, message listing, attachment listings, deletions: no
\* request of an earlier stage follows one of a later stage, the first three
\* stages are entered once and each only after the one before it, the
\* attachment listings go through the listed messages in listing order, one
\* per message (all of them unless an exception ended the run), and the
\* deletions are sent by the step after process_dmarc_mail_items
C16_StagesInOrder ==
    /\ \A j, k \in 1..Len(sent) :
           j < k => /\ Stage(sent[j]) <= Stage(sent[k])
                    /\ Stage(sent[j]) = Stage(sent[k]) => Stage(sent[k]) \in {4, 5}
    /\ \A k \in 1..Len(sent) :
           Stage(sent[k]) \in 2..4 =>
               k > 1 /\ Stage(sent[k - 1]) \in {Stage(sent[k]) - 1, 4}
    /\ sent # <<>> => Stage(sent[1]) = 1
    /\ Len(AttachmentListings) <= Len(mailbox)
    /\ \A k \in 1..Len(AttachmentListings) : AttachmentListings[k].id = mailbox[k].id
    /\ (Listed /\ ~raised) => Len(AttachmentListings) = Len(mailbox)
    /\ (\E k \in 1..Len(sent) : Stage(sent[k]) = 5) => pc = "done"

\* a whole run: token, folders, messages, two attachment listings, deletions
C16_Witness ==
    /\ pc = "done"
    /\ folder_id # None
    /\ Len(AttachmentListings) = 2
    /\ \E k \in 1..Len(sent) : Stage(sent[k]) = 5

MessageListings == {k \in 1..Len(sent) : sent[k].kind = "messages"}

\* C17: a message-listing request is sent only when the folder lookup
\* produced a folder id; when no listed display name equals mailbox_folder,
\* no message-listing request is sent in that run
C17_MessagesOnlyForResolvedFolder ==
    /\ MessageListings # {} => folder_id # None
    /\ (FoldersListed /\ Matches = {}) => MessageListings = {}

----------------------------------------------------------------------------
(* The caches and the frame of the operations *)

FolderListingRequests(requests) == {k \in 1..Len(requests) : requests[k].kind = "folders"}

\* C18: once the cached folder id holds an identifier, no operation changes
\* it and no later get_folder_id, called directly or from
\* process_dmarc_mail_items, sends a folder-listing request
C18_FolderIdSetOnce ==
    [][folder_id # None =>
          /\ folder_id' = folder_id
          /\ op' \in {"get_folder_id", "process_dmarc_mail_items"} =>
                 FolderListingRequests(sent') = {}]_vars

\* get_folder_id ran on a client that holds a token and a folder id: it
\* listed no folders
C18_Witness ==
    /\ op = "get_folder_id"
    /\ token # None
    /\ folder_id # None
    /\ FolderListingRequests(sent) = {}

DeletionRequests(requests) ==
    {k \in 1..Len(requests) : requests[k].method = "DELETE"}

\* C19: api_get_request, api_delete_request and delete_mail_items leave the
\* token, its expiry and the folder id as they were; the token and its expiry
\* change only in an operation that runs get_token and sends the token
\* request, the folder id only in one that runs get_folder_id and lists the
\* folders; process_dmarc_mail_items sends no deletion request and
\* delete_mail_items sends deletion requests only
C19_Frame ==
    [][/\ op' \in {"api_get_request", "api_delete_request", "delete_mail_items"} =>
             UNCHANGED <<token, token_expires, folder_id>>
       /\ (token' # token \/ token_expires' # token_expires) =>
             /\ op' \in {"get_token", "get_folder_id", "process_dmarc_mail_items"}
             /\ TokenRequests(sent') # {}
       /\ folder_id' # folder_id =>
             /\ op' \in {"get_folder_id", "process_dmarc_mail_items"}
             /\ FolderListingRequests(sent') # {}
       /\ op' = "process_dmarc_mail_items" => DeletionRequests(sent') = {}
       /\ op' = "delete_mail_items" =>
             DeletionRequests(sent') = 1..Len(sent')]_vars

\* delete_mail_items sent deletions with the token and the folder id held
C19_Witness ==
    /\ op = "delete_mail_items"
    /\ token # None
    /\ folder_id # None
    /\ DeletionRequests(sent) # {}

====
